---- MODULE Spec2Model ----
(***************************************************************************)
(* MinerCo (src/app.py): the server-side economy of a mining game.  One    *)
(* player record (a row of User) is changed by the request handlers        *)
(* api_mine, sell_all, shop_pickaxe, shop_powerup, pets_spin,              *)
(* codes_redeem, daily_claim, admin_login, admin_money, admin_powerups.    *)
(*                                                                         *)
(* Every handler is a pure operator  Handler(u, inputs, t)  that returns   *)
(* [u |-> the record after the call, resp |-> the HTTP response].  The     *)
(* sequential specification Spec applies one handler per step to the       *)
(* stored record; the concurrent specification SpecConc splits a request   *)
(* into its load (auth_user), compute and store (db.session.commit) steps. *)
(*                                                                         *)
(* Modelling decisions:                                                    *)
(*  - the requests are those of an authenticated user (auth_user returns   *)
(*    the record); the 401 path touches no record and is left out;         *)
(*  - the columns no handler writes (username, password_hash,              *)
(*    achievements, session_token) are left out; sword is kept because     *)
(*    crit_chance reads it;                                                *)
(*  - the clock does not advance during a request: every now_ms() call of *)
(*    one handler returns the same t;                                      *)
(*  - the float multipliers 1.25, 1.5, 1.1 are rationals [n, d]; int(x) of *)
(*    a non-negative product is n \div d.  (The double nearest to 1.1 lies *)
(*    above 1.1, so int(gain * 1.1) = floor(gain * 11 / 10) for every gain *)
(*    in range.)                                                           *)
(*  - strings that the code converts (the redeem code) are sequences of    *)
(*    one-character strings, so that upper() and strip() are computed.     *)
(***************************************************************************)
EXTENDS Integers, Sequences, FiniteSets, TLC

\* ------------------------------------------------------------------------
\* Bounds of the model
\* ------------------------------------------------------------------------
MaxOps == 2

\* ------------------------------------------------------------------------
\* Game data (server-authoritative catalog)
\* ------------------------------------------------------------------------
ORES == <<"coal", "copper", "bronze", "silver", "gold", "diamond", "emerald", "rainbow", "goldrush">>

OreSet == {ORES[i] : i \in 1..Len(ORES)}

ORE_VALUES == [coal |-> 1, copper |-> 2, bronze |-> 3, silver |-> 5, gold |-> 8,
               diamond |-> 15, emerald |-> 30, rainbow |-> 20, goldrush |-> 0]

ORE_REQ_rainbow_at_gold ==
    [coal |-> "coal", copper |-> "copper", bronze |-> "bronze", silver |-> "silver",
     gold |-> "gold", diamond |-> "diamond", emerald |-> "emerald",
     rainbow |-> "gold", goldrush |-> "diamond"]

ORE_REQ == [coal |-> "coal", copper |-> "copper", bronze |-> "bronze", silver |-> "silver",
            gold |-> "gold", diamond |-> "diamond", emerald |-> "emerald",
            rainbow |-> "diamond", goldrush |-> "diamond"]

PICKAXE_COSTS == [coal    |-> [coal |-> 10],
                  copper  |-> [coal |-> 20],
                  bronze  |-> [copper |-> 30],
                  silver  |-> [bronze |-> 40],
                  gold    |-> [silver |-> 50],
                  diamond |-> [gold |-> 60],
                  emerald |-> [diamond |-> 100]]

POWERUPS == ("2x Strength" :> [key |-> "strength", mult |-> 2, secs |-> 120]) @@
            ("2x Luck"     :> [key |-> "luck",     mult |-> 2, secs |-> 120])

SWORDS == [none |-> 0, iron |-> 5, steel |-> 12, mythril |-> 20]

\* a pet effect is a rational [n, d]: 1.25 = 125/100, 1.5 = 15/10, 1.1 = 11/10, 0.08 = 8/100
PET_POOL == << [id |-> "mole",     name |-> "Mole",      rarity |-> "common",   effect |-> [strength |-> [n |-> 125, d |-> 100]]],
               [id |-> "cat",      name |-> "Lucky Cat", rarity |-> "rare",     effect |-> [luck     |-> [n |-> 15,  d |-> 10]]],
               [id |-> "parrot",   name |-> "Parrot",    rarity |-> "uncommon", effect |-> [sell     |-> [n |-> 11,  d |-> 10]]],
               [id |-> "fox",      name |-> "Amber Fox", rarity |-> "epic",     effect |-> [crit     |-> [n |-> 8,   d |-> 100]]],
               [id |-> "tortoise", name |-> "Tortoise",  rarity |-> "common",   effect |-> [sustain  |-> [n |-> 1,   d |-> 1]]] >>

PET_WEIGHTS == [common |-> 56, uncommon |-> 24, rare |-> 14, epic |-> 6]

\* the redeem codes, as sequences of characters
WELCOME  == <<"W", "E", "L", "C", "O", "M", "E">>
LUCKY    == <<"L", "U", "C", "K", "Y">>
SHINY    == <<"S", "H", "I", "N", "Y">>
FREEPET  == <<"F", "R", "E", "E", "P", "E", "T">>
GOLDRUSH == <<"G", "O", "L", "D", "R", "U", "S", "H">>

\* the reward dict each code's lambda returns (without the message)
CODE_REWARDS_shiny_hundred ==
    (WELCOME  :> [silver  |-> 200]) @@
    (LUCKY    :> [powerup |-> "2x Luck"]) @@
    (SHINY    :> [item    |-> [diamond |-> 100]]) @@
    (FREEPET  :> [freepet |-> TRUE]) @@
    (GOLDRUSH :> [event   |-> "gold"])

CODE_REWARDS == (WELCOME  :> [silver  |-> 200]) @@
                (LUCKY    :> [powerup |-> "2x Luck"]) @@
                (SHINY    :> [item    |-> [diamond |-> 5]]) @@
                (FREEPET  :> [freepet |-> TRUE]) @@
                (GOLDRUSH :> [event   |-> "gold"])

ADMIN_CODE == "danielis67"

\* ------------------------------------------------------------------------
\* The player record as the constructor of User leaves it
\* ------------------------------------------------------------------------
EmptyMap == [k \in {} |-> 0]

User == [silver          |-> 0,
         pickaxe         |-> "coal",
         sword           |-> "none",
         inventory       |-> [coal |-> 10, copper |-> 0, bronze |-> 0, silver |-> 0, gold |-> 0,
                              diamond |-> 0, emerald |-> 0, rainbow |-> 0, goldrush |-> 0],
         active_powerups |-> EmptyMap,
         pets            |-> << >>,
         used_codes      |-> << >>,
         stats           |-> [oresMined |-> 0, crits |-> 0, silverEarned |-> 0, silverSpent |-> 0,
                              total |-> [coal |-> 0, copper |-> 0, bronze |-> 0, silver |-> 0,
                                         gold |-> 0, diamond |-> 0, emerald |-> 0, rainbow |-> 0]],
         last_daily      |-> 0,
         is_admin        |-> FALSE]

\* ------------------------------------------------------------------------
\* Helpers
\* ------------------------------------------------------------------------
\* dict.get(key, default) and dict[key] = value on a map with a dynamic domain
Get(m, k, default) == IF k \in DOMAIN m THEN m[k] ELSE default

Put(m, k, v) == (k :> v) @@ m

\* jsonify(...): status 200 carries the message, any other status the error
Ok(op, message) == [op |-> op, status |-> 200, body |-> message]

Err(op, status, error) == [op |-> op, status |-> status, body |-> error]

\* ORES.index(ore), 0-based
tier_index(ore) == (CHOOSE i \in 1..Len(ORES) : ORES[i] = ore) - 1

can_mine_off_by_one(user, ore) == tier_index(user.pickaxe) + 1 >= tier_index(ORE_REQ[ore])

can_mine(user, ore) == tier_index(user.pickaxe) >= tier_index(ORE_REQ[ore])

\* the product of the pets' contributions to one effect, as a rational
RECURSIVE PetProduct(_, _, _)
PetProduct(pets, key, i) ==
    IF i > Len(pets) THEN [n |-> 1, d |-> 1]
    ELSE LET rest == PetProduct(pets, key, i + 1)
             e    == Get(pets[i].effect, key, [n |-> 1, d |-> 1])
         IN  [n |-> e.n * rest.n, d |-> e.d * rest.d]

power_mult_live_at_expiry(user, key, t) ==
    LET p    == Get(user.active_powerups, key, [mult |-> 1, until |-> 0])
        live == key \in DOMAIN user.active_powerups /\ p.until >= t
        m    == IF live THEN p.mult ELSE 1
        pp   == IF key \in {"strength", "luck"} THEN PetProduct(user.pets, key, 1)
                ELSE [n |-> 1, d |-> 1]
    IN  [n |-> m * pp.n, d |-> pp.d]

power_mult(user, key, t) ==
    LET p    == Get(user.active_powerups, key, [mult |-> 1, until |-> 0])
        live == key \in DOMAIN user.active_powerups /\ p.until > t
        m    == IF live THEN p.mult ELSE 1
        pp   == IF key \in {"strength", "luck"} THEN PetProduct(user.pets, key, 1)
                ELSE [n |-> 1, d |-> 1]
    IN  [n |-> m * pp.n, d |-> pp.d]

sell_mult_no_pets(user) == [n |-> 1, d |-> 1]

sell_mult(user) == PetProduct(user.pets, "sell", 1)

\* the sum of the pets' crit contributions times 100, in percent
RECURSIVE PetCrit(_, _)
PetCrit(pets, i) ==
    IF i > Len(pets) THEN 0
    ELSE LET e == Get(pets[i].effect, "crit", [n |-> 0, d |-> 1])
         IN  (e.n * 100) \div e.d + PetCrit(pets, i + 1)

crit_chance(user) == Get(SWORDS, user.sword, 0) + PetCrit(user.pets, 1)

add_ore(user, ore, qty) ==
    LET inv == [user.inventory EXCEPT ![ore] = @ + qty]
        tot == IF ore \in DOMAIN user.stats.total
               THEN [user.stats.total EXCEPT ![ore] = @ + qty]
               ELSE user.stats.total
        st  == [user.stats EXCEPT !.oresMined = @ + qty, !.total = tot]
    IN  [user EXCEPT !.inventory = inv, !.stats = st]

\* str.upper() and str.strip() on a sequence of characters
LowerCase == <<"a", "b", "c", "d", "e", "f", "g", "h", "i", "j", "k", "l", "m",
               "n", "o", "p", "q", "r", "s", "t", "u", "v", "w", "x", "y", "z">>

UpperCase == <<"A", "B", "C", "D", "E", "F", "G", "H", "I", "J", "K", "L", "M",
               "N", "O", "P", "Q", "R", "S", "T", "U", "V", "W", "X", "Y", "Z">>

Whitespace == {" ", "\t", "\n"}

upper(s) == [i \in 1..Len(s) |->
                IF \E k \in 1..26 : LowerCase[k] = s[i]
                THEN UpperCase[CHOOSE k \in 1..26 : LowerCase[k] = s[i]]
                ELSE s[i]]

RECURSIVE lstrip(_)
lstrip(s) == IF s # << >> /\ Head(s) \in Whitespace THEN lstrip(Tail(s)) ELSE s

RECURSIVE rstrip(_)
rstrip(s) == IF s # << >> /\ s[Len(s)] \in Whitespace THEN rstrip(SubSeq(s, 1, Len(s) - 1)) ELSE s

strip(s) == rstrip(lstrip(s))

normalize_upper_only(code) == upper(code)

\* raw = (request.json.get("code") or "").upper().strip()
normalize(code) == strip(upper(code))

\* x in list
InList(x, list) == \E i \in 1..Len(list) : list[i] = x

Max(a, b) == IF a >= b THEN a ELSE b

\* ------------------------------------------------------------------------
\* Handlers: the record after the call and the response
\* ------------------------------------------------------------------------
\* roll is random.random()*100, pick is random.randint(0,6)
api_mine(u, ore, roll, pick, t) ==
    IF ore \notin OreSet THEN [u |-> u, resp |-> Err("mine", 400, "Unknown ore")]
    ELSE IF ~can_mine(u, ore) THEN [u |-> u, resp |-> Err("mine", 403, "Locked ore for your pickaxe")]
    ELSE LET pm   == power_mult(u, "strength", t)
             base == Max(1, pm.n \div pm.d)
             crit == roll < crit_chance(u)
             qty  == IF crit THEN base * 2 ELSE base
             u1   == IF crit THEN [u EXCEPT !.stats.crits = @ + 1] ELSE u
             u2   == IF ore = "rainbow" THEN add_ore(u1, ORES[pick + 1], qty)
                     ELSE IF ore = "goldrush" THEN add_ore(u1, "gold", qty * 2)
                     ELSE add_ore(u1, ore, qty)
         IN  [u |-> u2, resp |-> Ok("mine", "")]

\* sum of qty * val over the ores of the loop that are sold
RECURSIVE SellGain(_, _)
SellGain(inv, i) ==
    IF i > Len(ORES) THEN 0
    ELSE (IF ORES[i] # "goldrush" /\ inv[ORES[i]] > 0 THEN inv[ORES[i]] * ORE_VALUES[ORES[i]] ELSE 0)
         + SellGain(inv, i + 1)

sell_all(u) ==
    LET inv  == [ore \in DOMAIN u.inventory |->
                    IF ore # "goldrush" /\ u.inventory[ore] > 0 THEN 0 ELSE u.inventory[ore]]
        mult == sell_mult(u)
        gain == (SellGain(u.inventory, 1) * mult.n) \div mult.d
    IN  [u |-> [u EXCEPT !.inventory = inv, !.silver = @ + gain, !.stats.silverEarned = @ + gain],
         resp |-> Ok("sell_all", "")]

already_owned_equal_only(u, tier) == tier_index(u.pickaxe) = tier_index(tier)

\* already owned or higher
already_owned(u, tier) == tier_index(u.pickaxe) >= tier_index(tier)

check_cost_always(inv, cost) == TRUE

check_cost_first_unit(inv, cost) == \A ore \in DOMAIN cost : inv[ore] >= 1

\* check cost: no ore of the cost is held in less than the needed quantity
check_cost(inv, cost) == \A ore \in DOMAIN cost : inv[ore] >= cost[ore]

\* the deduction loop
pay_cost(inv, cost) == [ore \in DOMAIN inv |->
                           IF ore \in DOMAIN cost THEN inv[ore] - cost[ore] ELSE inv[ore]]

shop_pickaxe(u, tier) ==
    IF tier \notin DOMAIN PICKAXE_COSTS THEN [u |-> u, resp |-> Err("shop_pickaxe", 400, "Unknown pickaxe")]
    ELSE IF already_owned(u, tier) THEN [u |-> u, resp |-> Ok("shop_pickaxe", "Already owned")]
    ELSE IF ~check_cost(u.inventory, PICKAXE_COSTS[tier])
         THEN [u |-> u, resp |-> Err("shop_pickaxe", 400, "Not enough resources")]
    ELSE [u |-> [u EXCEPT !.inventory = pay_cost(u.inventory, PICKAXE_COSTS[tier]), !.pickaxe = tier],
          resp |-> Ok("shop_pickaxe", "Purchased")]

shop_powerup_charge_first(u, name, t) ==
    LET price == IF name = "2x Strength" THEN 50 ELSE 75
        paid  == [u EXCEPT !.silver = @ - price, !.stats.silverSpent = @ + price]
    IN  IF name \notin DOMAIN POWERUPS THEN [u |-> u, resp |-> Err("shop_powerup", 400, "Unknown powerup")]
        ELSE IF u.silver < price THEN [u |-> paid, resp |-> Err("shop_powerup", 400, "Need more silver")]
        ELSE LET eff == POWERUPS[name]
             IN  [u |-> [paid EXCEPT !.active_powerups =
                            Put(@, eff.key, [mult |-> eff.mult, until |-> t + eff.secs * 1000])],
                  resp |-> Ok("shop_powerup", "Activated")]

shop_powerup_stacking(u, name, t) ==
    LET price == IF name = "2x Strength" THEN 50 ELSE 75
    IN  IF name \notin DOMAIN POWERUPS THEN [u |-> u, resp |-> Err("shop_powerup", 400, "Unknown powerup")]
        ELSE IF u.silver < price THEN [u |-> u, resp |-> Err("shop_powerup", 400, "Need more silver")]
        ELSE LET eff  == POWERUPS[name]
                 paid == [u EXCEPT !.silver = @ - price, !.stats.silverSpent = @ + price]
                 from == Max(t, Get(u.active_powerups, eff.key, [mult |-> 1, until |-> 0]).until)
             IN  [u |-> [paid EXCEPT !.active_powerups =
                            Put(@, eff.key, [mult |-> eff.mult, until |-> from + eff.secs * 1000])],
                  resp |-> Ok("shop_powerup", "Activated")]

shop_powerup(u, name, t) ==
    LET price == IF name = "2x Strength" THEN 50 ELSE 75
    IN  IF name \notin DOMAIN POWERUPS THEN [u |-> u, resp |-> Err("shop_powerup", 400, "Unknown powerup")]
        ELSE IF u.silver < price THEN [u |-> u, resp |-> Err("shop_powerup", 400, "Need more silver")]
        ELSE LET eff  == POWERUPS[name]
                 paid == [u EXCEPT !.silver = @ - price, !.stats.silverSpent = @ + price]
             IN  [u |-> [paid EXCEPT !.active_powerups =
                            Put(@, eff.key, [mult |-> eff.mult, until |-> t + eff.secs * 1000])],
                  resp |-> Ok("shop_powerup", "Activated")]

\* the pets of one rarity, among which random.choice draws
Candidates(rarity) == {PET_POOL[i] : i \in {k \in 1..Len(PET_POOL) : PET_POOL[k].rarity = rarity}}

owns_pet_never(owned, pet) == FALSE

\* any(p.get("id") == pet["id"] for p in owned)
owns_pet(owned, pet) == \E i \in 1..Len(owned) : owned[i].id = pet.id

\* pet is the outcome of the two draws (rarity, then a pet of that rarity)
pets_spin(u, free, pet) ==
    LET cost == 150
    IN  IF u.silver < cost /\ ~free THEN [u |-> u, resp |-> Err("pets_spin", 400, "Need 150 silver")]
        ELSE LET u1 == IF ~free THEN [u EXCEPT !.silver = @ - cost, !.stats.silverSpent = @ + cost]
                       ELSE u
             IN  IF owns_pet(u1.pets, pet)
                 THEN [u |-> [u1 EXCEPT !.silver = @ + 50], resp |-> Ok("pets_spin", "Duplicate")]
                 ELSE [u |-> [u1 EXCEPT !.pets = Append(@, pet)], resp |-> Ok("pets_spin", "New pet")]

add_items_overwrite(inv, item) == [ore \in DOMAIN inv |->
                                      IF ore \in DOMAIN item THEN item[ore] ELSE inv[ore]]

\* for k, v in reward["item"].items(): inv[k] = int(inv.get(k, 0)) + int(v)
add_items(inv, item) == [ore \in DOMAIN inv |->
                            IF ore \in DOMAIN item THEN inv[ore] + item[ore] ELSE inv[ore]]

codes_redeem(u, code, t) ==
    LET raw == normalize(code)
    IN  IF raw = << >> THEN [u |-> u, resp |-> Err("codes_redeem", 400, "Code required")]
        ELSE IF InList(raw, u.used_codes) THEN [u |-> u, resp |-> Err("codes_redeem", 400, "Code already used")]
        ELSE IF raw \notin DOMAIN CODE_REWARDS THEN [u |-> u, resp |-> Err("codes_redeem", 400, "Invalid code")]
        ELSE LET reward == CODE_REWARDS[raw]
                 u1 == IF Get(reward, "silver", 0) # 0
                       THEN [u EXCEPT !.silver = @ + reward.silver,
                                      !.stats.silverEarned = @ + reward.silver]
                       ELSE u
                 u2 == IF "item" \in DOMAIN reward
                       THEN [u1 EXCEPT !.inventory = add_items(@, reward.item)]
                       ELSE u1
                 u3 == IF "powerup" \in DOMAIN reward
                       THEN LET eff == POWERUPS[reward.powerup]
                            IN  [u2 EXCEPT !.active_powerups =
                                    Put(@, eff.key, [mult |-> eff.mult, until |-> t + eff.secs * 1000])]
                       ELSE u2
                 \* freepet: pass; event ignored server-side
             IN  [u |-> [u3 EXCEPT !.used_codes = Append(@, raw)], resp |-> Ok("codes_redeem", "OK")]

day_ms == 24 * 60 * 60 * 1000

cooldown_one_ms_short(u, t) == u.last_daily # 0 /\ t - u.last_daily < day_ms - 1

\* user.last_daily and (now_ms() - int(user.last_daily) < day_ms)
cooldown(u, t) == u.last_daily # 0 /\ t - u.last_daily < day_ms

\* rnd is secrets.randbelow(2)
daily_claim(u, rnd, t) ==
    IF cooldown(u, t) THEN [u |-> u, resp |-> Err("daily_claim", 400, "Cooldown")]
    ELSE LET gain == 200
             eff  == POWERUPS[IF rnd = 0 THEN "2x Strength" ELSE "2x Luck"]
         IN  [u |-> [u EXCEPT !.last_daily = t,
                              !.silver = @ + gain,
                              !.stats.silverEarned = @ + gain,
                              !.active_powerups = Put(@, eff.key, [mult |-> eff.mult, until |-> t + 60 * 1000])],
              resp |-> Ok("daily_claim", "Daily claimed")]

admin_login(u, code) ==
    IF code = ADMIN_CODE
    THEN [u |-> [u EXCEPT !.is_admin = TRUE], resp |-> Ok("admin_login", "Admin unlocked")]
    ELSE [u |-> u, resp |-> Err("admin_login", 403, "Wrong admin code")]

forbidden_never(u) == FALSE

\* not user.is_admin
forbidden(u) == ~u.is_admin

admin_money(u) ==
    IF forbidden(u) THEN [u |-> u, resp |-> Err("admin_money", 403, "Forbidden")]
    ELSE [u |-> [u EXCEPT !.silver = @ + 999999], resp |-> Ok("admin_money", "")]

admin_powerups(u, t) ==
    IF forbidden(u) THEN [u |-> u, resp |-> Err("admin_powerups", 403, "Forbidden")]
    ELSE LET until == t + 10 * 60 * 1000
         IN  [u |-> [u EXCEPT !.active_powerups =
                        Put(Put(@, "strength", [mult |-> 2, until |-> until]),
                            "luck", [mult |-> 2, until |-> until])],
              resp |-> Ok("admin_powerups", "All powerups for 10 minutes")]

\* ------------------------------------------------------------------------
\* State
\* ------------------------------------------------------------------------
VARIABLES
    user,      \* the stored row of the player
    now,       \* the clock, now_ms()
    resp,      \* the response of the last request
    ops,       \* the number of steps taken, for the bound MaxOps
    session,   \* SpecConc: per request in flight, its position and its copy of the row
    snapshot   \* SpecConc: the row before the two requests

vars == <<user, now, resp, ops, session, snapshot>>

\* ------------------------------------------------------------------------
\* Inputs of the requests and outcomes of the random draws
\* ------------------------------------------------------------------------
OreInputs == OreSet \cup {"stone"}

\* random.random() * 100
Rolls == {7, 8}

\* random.randint(0, 6), drawn when rainbow is mined
Picks_up_to_seven(ore) == IF ore = "rainbow" THEN 0..7 ELSE {0}

Picks(ore) == IF ore = "rainbow" THEN 0..6 ELSE {0}

TierInputs == DOMAIN PICKAXE_COSTS \cup {"rainbow", "wood"}

PowerupInputs == {"2x Strength", "2x Luck", "3x Speed"}

Rarities == DOMAIN PET_WEIGHTS

RawCodes == { WELCOME,
              <<"w", "e", "l", "c", "o", "m", "e">>,
              <<" ", "W", "e", "l", "c", "o", "m", "e", "\n">>,
              <<"W", "E", "L", " ", "C", "O", "M", "E">>,
              LUCKY,
              <<"s", "h", "i", "n", "y", " ">>,
              FREEPET,
              <<"\t", "f", "r", "e", "e", "p", "e", "t">>,
              GOLDRUSH,
              << >>,
              <<" ", " ">>,
              <<"B", "O", "G", "U", "S">> }

AdminCodeInputs == {ADMIN_CODE, "", "Danielis67"}

TickSteps == {1, day_ms}

\* ------------------------------------------------------------------------
\* Initial rows: the fresh row and rows the handlers produce from it
\* ------------------------------------------------------------------------
Now0 == 2 * day_ms

\* the row after n calls of mine(ore) that each yield 1 (no live strength, no pet, no
\* critical hit): each call is add_ore(u, ore, 1), and n of them add up to add_ore(u, ore, n)
Mined(u, ore, n, t) ==
    IF n > 0 /\ api_mine(u, ore, 99, 0, t).u = add_ore(u, ore, 1) THEN add_ore(u, ore, n) ELSE u

CostOre(tier) == CHOOSE ore \in DOMAIN PICKAXE_COSTS[tier] : TRUE

\* Ready(k): the row that owns tier ORES[k-1] and holds exactly the cost of tier ORES[k],
\*           mined one unit per call
\* Owner(k): the row after it bought tier ORES[k]
RECURSIVE Owner(_, _)
Ready(k, t) ==
    LET prev == IF k = 2 THEN User ELSE Owner(k - 1, t)
        ore  == CostOre(ORES[k])
        need == PICKAXE_COSTS[ORES[k]][ore]
        n    == need - prev.inventory[ore]
    IN  IF api_mine(prev, ore, 99, 0, t).u = add_ore(prev, ore, 1) THEN add_ore(prev, ore, n) ELSE prev

Owner(k, t) == shop_pickaxe(Ready(k, t), ORES[k]).u

PetById(id) == PET_POOL[CHOOSE i \in 1..Len(PET_POOL) : PET_POOL[i].id = id]

\* claimed the daily bonus 59.999 s ago (strength, live for 1 ms more) and redeemed WELCOME
RichRow ==
    LET t0 == Now0 - 59999
    IN  codes_redeem(daily_claim(User, 0, t0).u, WELCOME, t0).u

\* claimed the daily bonus one millisecond less than a day ago
ClaimedRow == daily_claim(User, 1, Now0 - (day_ms - 1)).u

\* holds the cost of bronze, 12 coal mined after the copper pickaxe, and three pets
\* from free spins
PetsRow ==
    LET t0 == Now0 - 1000
        u1 == pets_spin(Mined(Ready(3, t0), "coal", 12, t0), TRUE, PetById("parrot")).u
        u2 == pets_spin(u1, TRUE, PetById("fox")).u
    IN  pets_spin(u2, TRUE, PetById("mole")).u

\* holds the cost of gold and is an administrator
AdminRow == admin_login(Ready(5, Now0 - 1000), ADMIN_CODE).u

InitialRows == {User, Ready(2, Now0 - 1000), PetsRow, Ready(4, Now0 - 1000), AdminRow,
                Ready(6, Now0 - 1000), Ready(7, Now0 - 1000), RichRow, ClaimedRow}

NoResp == [op |-> "none", status |-> 0, body |-> ""]

Idle == [pc |-> "idle", req |-> [op |-> "none", arg |-> "", code |-> << >>, free |-> FALSE],
         loaded |-> User, local |-> User]

Workers == {1, 2}

Init ==
    /\ user \in InitialRows
    /\ now = Now0
    /\ resp = NoResp
    /\ ops = 0
    /\ session = [w \in Workers |-> Idle]
    /\ snapshot = user

\* ------------------------------------------------------------------------
\* Sequential requests: one handler per step
\* ------------------------------------------------------------------------
Reply(r) ==
    /\ ops < MaxOps
    /\ user' = r.u
    /\ resp' = r.resp
    /\ ops' = ops + 1
    /\ UNCHANGED <<now, session, snapshot>>

Mine(ore, roll, pick) == Reply(api_mine(user, ore, roll, pick, now))

SellAll == Reply(sell_all(user))

ShopPickaxe(tier) == Reply(shop_pickaxe(user, tier))

ShopPowerup(name) == Reply(shop_powerup(user, name, now))

PetsSpin(free, pet) == Reply(pets_spin(user, free, pet))

CodesRedeem(code) == Reply(codes_redeem(user, code, now))

DailyClaim(rnd) == Reply(daily_claim(user, rnd, now))

AdminLogin(code) == Reply(admin_login(user, code))

AdminMoney == Reply(admin_money(user))

AdminPowerups == Reply(admin_powerups(user, now))

\* time passes between two requests
Tick(d) ==
    /\ ops < MaxOps
    /\ now' = now + d
    /\ resp' = [op |-> "tick", status |-> 0, body |-> ""]
    /\ ops' = ops + 1
    /\ UNCHANGED <<user, session, snapshot>>

Next ==
    \/ \E ore \in OreInputs, roll \in Rolls : \E pick \in Picks(ore) : Mine(ore, roll, pick)
    \/ SellAll
    \/ \E tier \in TierInputs : ShopPickaxe(tier)
    \/ \E name \in PowerupInputs : ShopPowerup(name)
    \/ \E free \in BOOLEAN, rarity \in Rarities : \E pet \in Candidates(rarity) : PetsSpin(free, pet)
    \/ \E code \in RawCodes : CodesRedeem(code)
    \/ \E rnd \in 0..1 : DailyClaim(rnd)
    \/ \E code \in AdminCodeInputs : AdminLogin(code)
    \/ AdminMoney
    \/ AdminPowerups
    \/ \E d \in TickSteps : Tick(d)

Spec == Init /\ [][Next]_vars

\* ------------------------------------------------------------------------
\* Concurrent requests on one row.  Each request runs in its own session:
\* auth_user() SELECTs the row into the session, the handler changes the
\* session's copy, and db.session.commit() UPDATEs the columns whose value
\* changed.  No handler takes a lock or checks a version, so the three steps of
\* two requests interleave freely.
\* ------------------------------------------------------------------------
Request(op, arg, code, free) == [op |-> op, arg |-> arg, code |-> code, free |-> free]

ConcRequests == { Request("mine", "coal", << >>, FALSE),
                  Request("sell_all", "", << >>, FALSE),
                  Request("shop_pickaxe", "copper", << >>, FALSE),
                  Request("shop_powerup", "2x Strength", << >>, FALSE),
                  Request("pets_spin", "mole", << >>, FALSE),
                  Request("codes_redeem", "", WELCOME, FALSE),
                  Request("daily_claim", "", << >>, FALSE) }

\* the handler the route of a request dispatches to (no critical hit, first draw)
Apply(rq, u, t) ==
    CASE rq.op = "mine"         -> api_mine(u, rq.arg, 99, 0, t)
      [] rq.op = "sell_all"     -> sell_all(u)
      [] rq.op = "shop_pickaxe" -> shop_pickaxe(u, rq.arg)
      [] rq.op = "shop_powerup" -> shop_powerup(u, rq.arg, t)
      [] rq.op = "pets_spin"    -> pets_spin(u, rq.free, PetById(rq.arg))
      [] rq.op = "codes_redeem" -> codes_redeem(u, rq.code, t)
      [] rq.op = "daily_claim"  -> daily_claim(u, 0, t)

\* auth_user(): the session reads the row
Load(w, rq) ==
    /\ session[w].pc = "idle"
    /\ session' = [session EXCEPT ![w] = [pc |-> "loaded", req |-> rq, loaded |-> user, local |-> user]]
    /\ UNCHANGED <<user, now, resp, ops, snapshot>>

\* the body of the handler, on the session's copy
Compute(w) ==
    /\ session[w].pc = "loaded"
    /\ session' = [session EXCEPT ![w].pc = "computed",
                                  ![w].local = Apply(session[w].req, session[w].loaded, now).u]
    /\ UNCHANGED <<user, now, resp, ops, snapshot>>

\* db.session.commit(): UPDATE of the columns the handler changed
Commit(w) ==
    /\ session[w].pc = "computed"
    /\ user' = [f \in DOMAIN user |->
                   IF session[w].local[f] # session[w].loaded[f] THEN session[w].local[f] ELSE user[f]]
    /\ session' = [session EXCEPT ![w].pc = "done"]
    /\ UNCHANGED <<now, resp, ops, snapshot>>

NextConc ==
    \/ \E w \in Workers, rq \in ConcRequests : Load(w, rq)
    \/ \E w \in Workers : Compute(w)
    \/ \E w \in Workers : Commit(w)

SpecConc == Init /\ [][NextConc]_vars

\* ------------------------------------------------------------------------
\* Properties
\* ------------------------------------------------------------------------
IsError(r) == r.status \notin {0, 200}

NoDuplicates(list) == \A i, j \in 1..Len(list) : list[i] = list[j] => i = j

\* C1: a request that returns an error leaves every field of the player record
\* equal to its value before the call.
C1_ErrorLeavesRecordUnchanged == [][IsError(resp') => user' = user]_vars

C1_Witness ==
    /\ resp.op = "shop_powerup" /\ resp.body = "Need more silver"
    /\ user.silver > 0 /\ user.silver < 50

\* C2: the pickaxe tier never decreases in the tier order; a shop_pickaxe request
\* for a tier at or below the current one returns "Already owned" and changes
\* neither the tier nor the inventory; no other request writes the tier.
C2_TierNeverDecreases ==
    [][ /\ tier_index(user'.pickaxe) >= tier_index(user.pickaxe)
        /\ user'.pickaxe # user.pickaxe => resp'.op = "shop_pickaxe"
        /\ \A tier \in DOMAIN PICKAXE_COSTS :
              (ShopPickaxe(tier) /\ tier_index(tier) <= tier_index(user.pickaxe))
              => /\ resp'.body = "Already owned"
                 /\ user'.pickaxe = user.pickaxe
                 /\ user'.inventory = user.inventory ]_vars

C2_Witness ==
    /\ resp.op = "shop_pickaxe" /\ resp.body = "Already owned"
    /\ user.pickaxe = "copper" /\ user.inventory.coal >= 10

\* C3: shop_pickaxe for a tier above the current one is all-or-nothing: with any
\* ore of the cost held below the required quantity no ore is deducted and the
\* tier is unchanged; otherwise every ore of the cost is reduced by exactly the
\* required quantity, the tier is the requested one, and no other inventory
\* slot, the silver balance or the statistics change.
C3_UpgradeAllOrNothing ==
    [][ \A tier \in DOMAIN PICKAXE_COSTS :
          (ShopPickaxe(tier) /\ tier_index(tier) > tier_index(user.pickaxe))
          => LET cost == PICKAXE_COSTS[tier]
             IN  IF \E ore \in DOMAIN cost : user.inventory[ore] < cost[ore]
                 THEN /\ user'.inventory = user.inventory
                      /\ user'.pickaxe = user.pickaxe
                 ELSE /\ \A ore \in OreSet :
                            user'.inventory[ore] =
                               user.inventory[ore] - (IF ore \in DOMAIN cost THEN cost[ore] ELSE 0)
                      /\ user'.pickaxe = tier
                      /\ user'.silver = user.silver
                      /\ user'.stats = user.stats ]_vars

C3_Witness ==
    /\ resp.op = "shop_pickaxe" /\ resp.body = "Purchased"
    /\ user.pickaxe = "copper" /\ user.inventory.coal = 0

\* raw is code c in some letter case, surrounded by any whitespace
IsVariantOf(raw, c) ==
    \E a \in 0..Len(raw) :
        /\ a + Len(c) <= Len(raw)
        /\ \A i \in 1..Len(raw) : (i <= a \/ i > a + Len(c)) => raw[i] \in Whitespace
        /\ \A i \in 1..Len(c) :
              \/ raw[a + i] = c[i]
              \/ \E k \in 1..26 : UpperCase[k] = c[i] /\ LowerCase[k] = raw[a + i]

\* C4: codes are one-time per record: a code in used_codes is never removed, it
\* appears there at most once, and every later codes_redeem of it, in any letter
\* case or with surrounding whitespace, fails with "Code already used" and
\* changes nothing.
C4_CodeRedeemedOnce ==
    [][ /\ Len(user'.used_codes) >= Len(user.used_codes)
        /\ SubSeq(user'.used_codes, 1, Len(user.used_codes)) = user.used_codes
        /\ NoDuplicates(user.used_codes) /\ NoDuplicates(user'.used_codes)
        /\ \A code \in RawCodes :
              (CodesRedeem(code) /\ \E i \in 1..Len(user.used_codes) : IsVariantOf(code, user.used_codes[i]))
              => /\ resp'.body = "Code already used"
                 /\ user' = user ]_vars

C4_Witness ==
    /\ resp.op = "codes_redeem" /\ resp.body = "Code already used"
    /\ Len(user.used_codes) = 1
    /\ ops = 2

\* C5: no pet id appears more than once in the pets list; a pets_spin whose drawn
\* pet is already owned leaves the pets list unchanged and credits exactly 50
\* silver, and a spin whose drawn pet is not owned appends exactly that pet and
\* credits no refund (a paid spin is charged 150 in both cases).
C5_PetsNeverDuplicated ==
    [][ /\ NoDuplicates([i \in 1..Len(user.pets) |-> user.pets[i].id])
        /\ NoDuplicates([i \in 1..Len(user'.pets) |-> user'.pets[i].id])
        /\ \A free \in BOOLEAN, i \in 1..Len(PET_POOL) :
              (PetsSpin(free, PET_POOL[i]) /\ ~IsError(resp'))
              => LET pet  == PET_POOL[i]
                     paid == IF free THEN 0 ELSE 150
                 IN  IF \E k \in 1..Len(user.pets) : user.pets[k].id = pet.id
                     THEN /\ user'.pets = user.pets
                          /\ user'.silver = user.silver - paid + 50
                     ELSE /\ user'.pets = Append(user.pets, pet)
                          /\ user'.silver = user.silver - paid ]_vars

C5_Witness ==
    /\ resp.op = "pets_spin" /\ resp.body = "Duplicate"
    /\ Len(user.pets) = 1
    /\ user.silver = 400 - 150 - 150 + 50

\* C6: mine(ore) is rejected as locked whenever the index of the pickaxe tier is
\* below the index of the ore's unlock requirement, and a rejected mine changes
\* neither the inventory nor the statistics; a fresh record cannot mine diamond.
C6_LockedOreRejected ==
    [][ /\ \A ore \in OreSet, roll \in Rolls :
              \A pick \in Picks(ore) :
                 (Mine(ore, roll, pick) /\ tier_index(user.pickaxe) < tier_index(ORE_REQ[ore]))
                 => /\ resp'.status = 403 /\ resp'.body = "Locked ore for your pickaxe"
                    /\ user'.inventory = user.inventory
                    /\ user'.stats = user.stats
        /\ (resp'.op = "mine" /\ IsError(resp'))
              => /\ user'.inventory = user.inventory
                 /\ user'.stats = user.stats
        /\ \A roll \in Rolls : IsError(api_mine(User, "diamond", roll, 0, now).resp) ]_vars

C6_Witness ==
    /\ resp.op = "mine" /\ resp.status = 403
    /\ user.pickaxe = "gold" /\ user.inventory.gold = 60

\* the sale value of an inventory: the sum of qty * value over the ores
RECURSIVE SaleValue(_, _)
SaleValue(inv, ores) ==
    IF ores = {} THEN 0
    ELSE LET ore == CHOOSE o \in ores : TRUE
         IN  inv[ore] * ORE_VALUES[ore] + SaleValue(inv, ores \ {ore})

\* the product of the "sell" contributions of the pets, as numerator and denominator
RECURSIVE SellFactor(_)
SellFactor(pets) ==
    IF pets = << >> THEN <<1, 1>>
    ELSE LET rest == SellFactor(Tail(pets))
             e    == Head(pets).effect
         IN  IF "sell" \in DOMAIN e THEN <<e.sell.n * rest[1], e.sell.d * rest[2]>> ELSE rest

\* C7: sell_all sets the holding of every ore with a non-zero sale value to 0,
\* leaves the goldrush holding untouched, and increases both silver and
\* silverEarned by exactly floor(sum of qty * value, times the sell multiplier),
\* the sell multiplier being the product of the pets' "sell" contributions.
C7_SellAllCreditsFloor ==
    [][ SellAll =>
          LET sold == {ore \in OreSet : ORE_VALUES[ore] # 0}
              f    == SellFactor(user.pets)
              gain == (SaleValue(user.inventory, sold) * f[1]) \div f[2]
          IN  /\ \A ore \in sold : user'.inventory[ore] = 0
              /\ user'.inventory.goldrush = user.inventory.goldrush
              /\ user'.silver = user.silver + gain
              /\ user'.stats.silverEarned = user.stats.silverEarned + gain ]_vars

C7_Witness ==
    /\ resp.op = "sell_all"
    /\ Len(user.pets) = 3
    /\ user.silver = 79 /\ user.stats.silverEarned = 79
    /\ user.inventory.coal = 0 /\ user.inventory.copper = 0

\* C9: daily_claim succeeds iff last_daily is 0 or now - last_daily >= 24 h; a
\* successful claim at time t sets last_daily to t and credits exactly 200
\* silver and 200 silverEarned; a claim less than 24 h after the last one fails
\* with "Cooldown" and changes nothing; two successive daily credits are at
\* least 24 h apart.
C9_DailyOncePerDay ==
    [][ /\ \A rnd \in 0..1 :
              DailyClaim(rnd) =>
                 IF user.last_daily = 0 \/ now - user.last_daily >= 24 * 60 * 60 * 1000
                 THEN /\ resp'.status = 200
                      /\ user'.last_daily = now
                      /\ user'.silver = user.silver + 200
                      /\ user'.stats.silverEarned = user.stats.silverEarned + 200
                 ELSE /\ resp'.body = "Cooldown"
                      /\ user' = user
        /\ (user'.last_daily # user.last_daily /\ user.last_daily # 0)
              => user'.last_daily - user.last_daily >= 24 * 60 * 60 * 1000 ]_vars

C9_Witness ==
    /\ resp.op = "daily_claim" /\ resp.status = 200
    /\ user.last_daily = now
    /\ user.stats.silverEarned = 400
    /\ user.used_codes = << >>

\* C10: admin_money and admin_powerups change the record only when is_admin is
\* already true, otherwise they fail "Forbidden" with no change; is_admin becomes
\* true only through admin_login with the correct admin code, and once true it
\* is never set back to false.
C10_AdminGate ==
    [][ /\ (resp'.op \in {"admin_money", "admin_powerups"} /\ ~user.is_admin)
              => /\ resp'.status = 403 /\ resp'.body = "Forbidden"
                 /\ user' = user
        /\ (user'.is_admin /\ ~user.is_admin)
              => /\ resp'.op = "admin_login" /\ resp'.status = 200
                 /\ AdminLogin(ADMIN_CODE)
        /\ \A code \in AdminCodeInputs \ {ADMIN_CODE} :
              (AdminLogin(code) /\ ~user.is_admin) => (~user'.is_admin /\ IsError(resp'))
        /\ user.is_admin => user'.is_admin ]_vars

C10_Witness ==
    /\ resp.op = "admin_money" /\ resp.status = 200
    /\ user.is_admin
    /\ user.silver = 999999

\* the row after request a and then request b, run one after the other on row u
Serial(a, b, u, t) == Apply(b, Apply(a, u, t).u, t).u

\* C8: two requests issued concurrently against one row serialize: whatever the
\* interleaving of their load, compute and store steps, the final row is the row
\* produced by running the two requests one after the other in some order.
C8_ConcurrentRequestsSerialize ==
    (\A w \in Workers : session[w].pc = "done")
    => \/ user = Serial(session[1].req, session[2].req, snapshot, now)
       \/ user = Serial(session[2].req, session[1].req, snapshot, now)

\* C11: starting from a fresh record, after any sequence of requests the silver
\* balance and every inventory quantity are non-negative.
C11_NothingNegative ==
    /\ user.silver >= 0
    /\ \A ore \in OreSet : user.inventory[ore] >= 0

C11_Witness ==
    /\ resp.op = "pets_spin" /\ resp.status = 200
    /\ user.silver = 0
    /\ user.stats.silverSpent = 200

\* C12: a successful codes_redeem of an unused catalog code applies exactly that
\* code's reward and appends the normalized code to used_codes in the same
\* transition: WELCOME adds exactly 200 to silver and to silverEarned, SHINY adds
\* exactly 5 diamond, LUCKY sets the luck entry to {mult 2, until now + 120 s},
\* and FREEPET changes no field other than used_codes.
C12_RedeemAppliesExactReward ==
    [][ \A code \in RawCodes :
          (CodesRedeem(code) /\ ~IsError(resp'))
          => /\ IsVariantOf(code, WELCOME)
                  => user' = [user EXCEPT !.silver = @ + 200,
                                          !.stats.silverEarned = @ + 200,
                                          !.used_codes = Append(@, WELCOME)]
             /\ IsVariantOf(code, SHINY)
                  => user' = [user EXCEPT !.inventory.diamond = @ + 5,
                                          !.used_codes = Append(@, SHINY)]
             /\ IsVariantOf(code, LUCKY)
                  => user' = [user EXCEPT !.active_powerups =
                                             ("luck" :> [mult |-> 2, until |-> now + 120 * 1000]) @@ @,
                                          !.used_codes = Append(@, LUCKY)]
             /\ IsVariantOf(code, FREEPET)
                  => user' = [user EXCEPT !.used_codes = Append(@, FREEPET)] ]_vars

C12_Witness ==
    /\ resp.op = "codes_redeem" /\ resp.status = 200
    /\ user.used_codes = <<SHINY>>
    /\ user.inventory.diamond = 105

\* C13: a successful redeem of the event code GOLDRUSH applies a time-boxed
\* event effect: after the redeem some field other than used_codes has changed.
C13_GoldRushAppliesEffect ==
    [][ \A code \in RawCodes :
          (CodesRedeem(code) /\ ~IsError(resp') /\ IsVariantOf(code, GOLDRUSH))
          => \E f \in DOMAIN user \ {"used_codes"} : user'[f] # user[f] ]_vars

\* C14: shop_powerup for a defined powerup with silver >= price (50 for
\* 2x Strength, 75 for 2x Luck) reduces silver by exactly the price, increases
\* silverSpent by exactly the price, and overwrites the entry of the powerup's
\* effect key with {mult 2, until now + 120 s} whatever the previous entry; the
\* other entry, the inventory, pets and used_codes (every other field) are
\* unchanged.
C14_PowerupOverwrites ==
    [][ /\ (ShopPowerup("2x Strength") /\ user.silver >= 50)
              => /\ resp'.status = 200
                 /\ user' = [user EXCEPT !.silver = @ - 50,
                                         !.stats.silverSpent = @ + 50,
                                         !.active_powerups =
                                            ("strength" :> [mult |-> 2, until |-> now + 120 * 1000]) @@ @]
        /\ (ShopPowerup("2x Luck") /\ user.silver >= 75)
              => /\ resp'.status = 200
                 /\ user' = [user EXCEPT !.silver = @ - 75,
                                         !.stats.silverSpent = @ + 75,
                                         !.active_powerups =
                                            ("luck" :> [mult |-> 2, until |-> now + 120 * 1000]) @@ @] ]_vars

C14_Witness ==
    /\ resp.op = "shop_powerup" /\ resp.status = 200
    /\ ops = 1
    /\ user.last_daily # 0
    /\ user.silver = 350
    /\ user.active_powerups["strength"].until = now + 120 * 1000

\* the product of the "strength" contributions of the pets, as numerator and denominator
RECURSIVE StrengthFactor(_)
StrengthFactor(pets) ==
    IF pets = << >> THEN <<1, 1>>
    ELSE LET rest == StrengthFactor(Tail(pets))
             e    == Head(pets).effect
         IN  IF "strength" \in DOMAIN e
             THEN <<e.strength.n * rest[1], e.strength.d * rest[2]>>
             ELSE rest

\* the number of units held, over all ores
RECURSIVE TotalHeld(_, _)
TotalHeld(inv, ores) ==
    IF ores = {} THEN 0
    ELSE LET ore == CHOOSE o \in ores : TRUE
         IN  inv[ore] + TotalHeld(inv, ores \ {ore})

\* q = max(1, floor(M)), doubled iff crit; M is the stored strength multiplier iff
\* its expiry is strictly greater than t, times the strength contribution of every pet
MineYield(u, t, crit) ==
    LET live == "strength" \in DOMAIN u.active_powerups /\ u.active_powerups["strength"].until > t
        m    == IF live THEN u.active_powerups["strength"].mult ELSE 1
        f    == StrengthFactor(u.pets)
        q    == IF (m * f[1]) \div f[2] >= 1 THEN (m * f[1]) \div f[2] ELSE 1
    IN  IF crit THEN 2 * q ELSE q

\* a successful mine adds q units (g * q when the ore is goldrush); crits grows by
\* exactly 1 iff the critical trial succeeds; oresMined grows by the quantity added
MineStepYields(g) ==
    \A ore \in OreSet, roll \in Rolls :
       \A pick \in Picks(ore) :
          (Mine(ore, roll, pick) /\ ~IsError(resp'))
          => LET crit  == roll < crit_chance(user)
                 q     == MineYield(user, now, crit)
                 added == TotalHeld(user'.inventory, OreSet) - TotalHeld(user.inventory, OreSet)
             IN  /\ added = (IF ore = "goldrush" THEN g * q ELSE q)
                 /\ user'.stats.crits = user.stats.crits + (IF crit THEN 1 ELSE 0)
                 /\ user'.stats.oresMined = user.stats.oresMined + added

\* C15 (as stated): a successful mine at time now adds q units, q = max(1,
\* floor(M)) doubled iff the critical trial succeeds, M the product of the stored
\* strength multiplier iff its expiry is strictly greater than now and the
\* strength contribution of every owned pet; crits increases by exactly 1 iff
\* the trial succeeds and oresMined by the quantity added to the inventory.
C15_MineAddsYield == [][MineStepYields(1)]_vars

\* C15 (amended): the same, except that a successful mine of goldrush adds 2 * q
\* units (of gold).
C15_MineAddsYieldTwiceForGoldrush == [][MineStepYields(2)]_vars

C15_Witness ==
    /\ resp.op = "mine" /\ resp.status = 200
    /\ "strength" \in DOMAIN user.active_powerups
    /\ user.active_powerups["strength"].until > now
    /\ user.pets = << >>
    /\ user.inventory.coal = 12 /\ user.stats.oresMined = 2

\* the seven base ores
BaseOres == {"coal", "copper", "bronze", "silver", "gold", "diamond", "emerald"}

\* C16: a successful mine of rainbow adds its yield to exactly one of the seven
\* base ores and a successful mine of goldrush adds twice its yield to gold; a
\* successful mine of any other ore adds the yield to that ore's own slot only;
\* the rainbow and goldrush holdings are 0 before and after every step.
C16_EventOresAreNeverHeld ==
    [][ /\ user.inventory.rainbow = 0 /\ user.inventory.goldrush = 0
        /\ user'.inventory.rainbow = 0 /\ user'.inventory.goldrush = 0
        /\ \A ore \in OreSet, roll \in Rolls :
              \A pick \in Picks(ore) :
                 (Mine(ore, roll, pick) /\ ~IsError(resp'))
                 => LET q == MineYield(user, now, roll < crit_chance(user))
                    IN  CASE ore = "rainbow" ->
                               \E b \in BaseOres :
                                  user'.inventory = [user.inventory EXCEPT ![b] = @ + q]
                          [] ore = "goldrush" ->
                               user'.inventory = [user.inventory EXCEPT !.gold = @ + 2 * q]
                          [] OTHER ->
                               user'.inventory = [user.inventory EXCEPT ![ore] = @ + q] ]_vars

C16_Witness ==
    /\ resp.op = "mine" /\ resp.status = 200
    /\ user.pickaxe = "diamond"
    /\ user.inventory.diamond = 100
    /\ user.inventory.emerald = 1
    /\ user.stats.oresMined = 291
    /\ user.inventory.rainbow = 0

\* the record has redeemed the free-roll code
RedeemedFreePet(u) == \E i \in 1..Len(u.used_codes) : u.used_codes[i] = FREEPET

\* C17: a record with less than 150 silver that has not redeemed FREEPET cannot
\* obtain a pet or a duplicate refund from a spin, free or not (a free spin
\* needs a redeemed free-roll code).
C17_FreeSpinsNeedFreeRollCode ==
    [][ \A free \in BOOLEAN, i \in 1..Len(PET_POOL) :
          (PetsSpin(free, PET_POOL[i]) /\ user.silver < 150 /\ ~RedeemedFreePet(user))
          => /\ IsError(resp')
             /\ user'.pets = user.pets
             /\ user'.silver = user.silver ]_vars

\* a successful mine increases only holdings of ores whose unlock requirement is
\* at or below the current tier; bonusEmerald allows emerald chosen when rainbow
\* is mined with the diamond pickaxe
MineStaysWithinTier(bonusEmerald) ==
    \A ore \in OreSet, roll \in Rolls :
       \A pick \in Picks(ore) :
          (Mine(ore, roll, pick) /\ ~IsError(resp'))
          => \A o \in OreSet :
                user'.inventory[o] > user.inventory[o]
                => \/ tier_index(ORE_REQ[o]) <= tier_index(user.pickaxe)
                   \/ /\ bonusEmerald
                      /\ ore = "rainbow" /\ o = "emerald" /\ user.pickaxe = "diamond"

\* C18 (as stated): a successful mine never increases the holding of an ore whose
\* unlock requirement (ORE_REQ) is above the record's current pickaxe tier,
\* including the ore chosen when rainbow is mined.
C18_MineNeverBypassesGating == [][MineStaysWithinTier(FALSE)]_vars

\* C18 (amended): the same, with one exception: mining rainbow with the diamond
\* pickaxe may increase the holding of emerald.
C18_MineBypassesGatingOnlyByBonusEmerald == [][MineStaysWithinTier(TRUE)]_vars

C18_Witness ==
    /\ resp.op = "mine" /\ resp.status = 200
    /\ ops = 2
    /\ user.pickaxe = "diamond"
    /\ user.inventory.emerald = 2
    /\ user.stats.oresMined = 292

\* of the ores unlocked above the pickaxe tier of u, only diamond is held, and no
\* more than the 5 units of the SHINY code (emerald, which pays for no tier, may
\* be held at the diamond tier)
HoldsNothingAboveTier(u) ==
    \A o \in OreSet :
       tier_index(ORE_REQ[o]) > tier_index(u.pickaxe)
       => \/ u.inventory[o] = 0
          \/ o = "diamond" /\ u.inventory[o] <= 5
          \/ o = "emerald" /\ u.pickaxe = "diamond"

\* C19: no tier can be skipped: each successful shop_pickaxe purchase moves the
\* pickaxe to exactly the next tier in the order coal, copper, bronze, silver,
\* gold, diamond, emerald, because the ores unlocked above the current tier are
\* never held in a quantity that pays for a tier (at most the 5 diamonds of SHINY).
C19_NoTierIsSkipped ==
    [][ /\ HoldsNothingAboveTier(user)
        /\ HoldsNothingAboveTier(user')
        /\ \A tier \in TierInputs :
              (ShopPickaxe(tier) /\ resp'.body = "Purchased")
              => /\ user'.pickaxe = tier
                 /\ tier_index(user'.pickaxe) = tier_index(user.pickaxe) + 1 ]_vars

C19_Witness ==
    /\ resp.op = "shop_pickaxe" /\ resp.body = "Purchased"
    /\ ops = 2
    /\ user.used_codes = <<SHINY>>
    /\ user.pickaxe = "diamond"
    /\ user.inventory.diamond = 5
    /\ user.inventory.gold = 0

\* the part of the balance that the currency statistics do not account for
Unaccounted(u) == u.silver - (u.stats.silverEarned - u.stats.silverSpent)

\* C20: without admin_money, silver = silverEarned - silverSpent: every step
\* other than admin_money changes silver by exactly what it adds to silverEarned
\* minus what it adds to silverSpent, starting from a record where the two sides
\* are equal, and neither counter ever decreases.
C20_StatisticsAccountForBalance ==
    [][ resp'.op # "admin_money"
        => /\ Unaccounted(user) = 0 => Unaccounted(user') = 0
           /\ user'.stats.silverEarned >= user.stats.silverEarned
           /\ user'.stats.silverSpent >= user.stats.silverSpent ]_vars

====
